---- MODULE Spec2Model ----
(***************************************************************************)
(* Model of mediacatalogue's thumbnail loading: the ImageLoader decode      *)
(* paths (image.py), the ThumbnailItem load/refresh calls and the           *)
(* ThumbnailsWidget load queue (thumbnails.py), with the interactive (GUI)  *)
(* thread and the thread-pool workers as interleaved processes.             *)
(***************************************************************************)
EXTENDS Naturals, Integers, Sequences, FiniteSets, TLC

\* ------------------------------------------------------------------ bounds
\* Number of add_collection_item calls in one behaviour.
MaxItems == 2
\* Number of _process_item jobs submitted to _thread_pool_executor.
MaxJobs == 1
\* Number of add_collection_item calls in one behaviour of SpecBatch.
MaxBatch == 3

\* Number of load_async calls on the loader of SpecDecoder.
MaxAsync == 2

\* Number of CollectionItem nodes created in one behaviour of SpecTree.
MaxNodes == 6
\* Length of the list a collections_loader returns.
MaxFresh == 2

\* Number of filter tags in the FiltersBar.
MaxTags == 2
\* Jobs submitted by the F5 refreshes of SpecRefresh.
MaxRefresh == 2
\* item_checked emissions waiting for their slot.
MaxChecks == 2
\* ThumbnailItems in the models of a context's widgets.
MaxThumbs == 6

\* ------------------------------------------------------- files on the disk
\* The files on the disk: a readable PNG, a PNG the reader cannot decode, a
\* 3-channel Radiance file, a 4-channel EXR, a 1-channel (greyscale) EXR, an
\* EXR OpenImageIO cannot open and a text file.
AllFiles ==
    {"a.png", "small.png", "bad.png", "a.hdr", "rgba.exr", "gray.exr",
     "bad.exr", "notes.txt"}

\* The files listed in the catalogue's collections.
Files == {"a.png", "bad.png", "gray.exr", "notes.txt"}

\* os.path.splitext(path)[1].lower()
splitext(path) ==
    CASE path \in {"a.png", "small.png", "bad.png"} -> ".png"
      [] path = "a.hdr" -> ".hdr"
      [] path \in {"rgba.exr", "gray.exr", "bad.exr"} -> ".exr"
      [] OTHER -> ".txt"

\* QMimeDatabase().mimeTypeForFile(path).name(); .hdr is misdetected.
QMimeDatabase(path) ==
    CASE splitext(path) = ".png" -> "image/png"
      [] splitext(path) = ".exr" -> "image/x-exr"
      [] splitext(path) = ".hdr" -> "text/x-mpsub"
      [] OTHER -> "text/plain"

ext_to_mime ==
    [e \in {".hdr", ".exr"} |->
        IF e = ".hdr" THEN "image/vnd.radiance" ELSE "image/x-exr"]

get_mime_type_for_file(path) ==
    IF splitext(path) \in DOMAIN ext_to_mime
    THEN ext_to_mime[splitext(path)]
    ELSE QMimeDatabase(path)

supported_mimes == {"image/png", "image/jpeg", "image/bmp"}

hdr_mimes == {"image/vnd.radiance", "image/x-exr"}

file_mime(path) == get_mime_type_for_file(path)

\* FileObject.is_image with the test left out: every file passes.
is_image_unguarded(path) == TRUE

is_image(path) == file_mime(path) \in (supported_mimes \cup hdr_mimes)

_oiio_available == TRUE

\* What the codecs find in each file: whether it can be opened and decoded,
\* its pixel size and (for the HDR files) spec.nchannels.
readable(path) == path \notin {"bad.png", "bad.exr", "notes.txt"}

source_size(path) ==
    IF path = "a.png" THEN [width |-> 400, height |-> 200]
    ELSE [width |-> 64, height |-> 32]

nchannels(path) ==
    CASE path = "a.hdr" -> 3
      [] path = "rgba.exr" -> 4
      [] OTHER -> 1

\* The collection each file is listed in (CollectionItem.files).
Collections == {"c1", "c2"}

collection_of(path) == IF path \in {"a.png", "gray.exr"} THEN "c1" ELSE "c2"

\* ---------------------------------------------------------------- decoder
QSize(w, h) == [width |-> w, height |-> h]

\* QSize.isNull: both width and height are 0.
isNull(size) == size.width = 0 /\ size.height = 0

\* QSize.scale(target, Qt.KeepAspectRatio) on `size`.
scale(size, target) ==
    IF size.width = 0 \/ size.height = 0 THEN target
    ELSE LET rw == (target.height * size.width) \div size.height
         IN IF rw <= target.width
            THEN QSize(rw, target.height)
            ELSE QSize(target.width,
                       (target.width * size.height) \div size.width)

\* QImage(): the null image.  QPixmap(*default_item_size): the placeholder.
NullImage == [format |-> "null", width |-> 0, height |-> 0]

default_item_width == 285

default_item_height == 150

placeholder ==
    [format |-> "pixmap", width |-> default_item_width,
     height |-> default_item_height]

QImage(format, size) ==
    [format |-> format, width |-> size.width, height |-> size.height]

\* The outcome of a call: the loader's image afterwards, whether image_loaded
\* was emitted, and the exception that left the call ("none": it returned).
Outcome(image, emitted, raised) ==
    [image |-> image, emitted |-> emitted, raised |-> raised]

\* Every channel count is given the RGBA format.
hdr_always_rgba(width, height, channels) ==
    [raised |-> "none",
     image |-> QImage("Format_RGBA8888", QSize(width, height))]

\* hdr_to_qimage: the image in the format of the channel count, or the
\* exception raised.
hdr_to_qimage(width, height, channels) ==
    IF channels = 3
    THEN [raised |-> "none",
          image |-> QImage("Format_RGB888", QSize(width, height))]
    ELSE IF channels = 4
    THEN [raised |-> "none",
          image |-> QImage("Format_RGBA8888", QSize(width, height))]
    ELSE [raised |-> "ValueError", image |-> NullImage]

\* QImageReader(file_path) with the optional setScaledSize, then read().
image_reader_read(path, target_size) ==
    IF ~readable(path) THEN NullImage
    ELSE IF isNull(target_size)
    THEN QImage("Format_ARGB32", source_size(path))
    ELSE QImage("Format_ARGB32", scale(source_size(path), target_size))

\* load_regular_image: self.image = image_reader.read(), then image_loaded.
load_regular_image(path, image, target_size) ==
    Outcome(image_reader_read(path, target_size), TRUE, "none")

\* oiio.ImageInput.open / spec / read_image / close: the data read, or the
\* AttributeError of calling spec() on the None that open() returns.
oiio_read(path) ==
    IF ~readable(path)
    THEN [raised |-> "AttributeError"]
    ELSE [raised |-> "none", width |-> source_size(path).width,
          height |-> source_size(path).height,
          channels |-> nchannels(path)]

\* load_hdr_image: an exception leaves before the assignment of self.image.
load_hdr_image(path, image, target_size) ==
    LET d == oiio_read(path) IN
    IF d.raised # "none" THEN Outcome(image, FALSE, d.raised)
    ELSE LET q == hdr_to_qimage(d.width, d.height, d.channels)
         IN IF q.raised # "none"
            THEN Outcome(image, FALSE, q.raised)
            ELSE Outcome(q.image, TRUE, "none")

\* ImageLoader.run on a loader whose image is `image`.
run(path, image, target_size) ==
    IF ~is_image(path)
    THEN Outcome(image, FALSE, "none")
    ELSE IF file_mime(path) \in hdr_mimes
    THEN IF _oiio_available
         THEN load_hdr_image(path, image, target_size)
         ELSE Outcome(image, FALSE, "none")
    ELSE load_regular_image(path, image, target_size)

\* ------------------------------------------------------------------ state
VARIABLES
    items,           \* every ThumbnailItem created, by identity 1..Len(items)
    model,           \* ThumbnailItemModel: the item of each row
    _pending_items,  \* ThumbnailsWidget._pending_items
    _is_loading,     \* ThumbnailsWidget._is_loading
    timers,          \* QTimer.singleShot(0, _load_next_item) calls not fired yet
    stack,           \* call stack of the interactive thread, innermost last
    pool,            \* _thread_pool_executor: the jobs not finished yet
    jobs,            \* number of jobs submitted to the pool so far
    last,            \* history: the load() that returned in the last step
    invs,            \* history: run() calls per file since it last had no
                     \* submission waiting or running
    queue_raised,    \* history: a load() called by the queue raised
    loader,          \* SpecDecoder: one ImageLoader (file, image, target_size)
    futures,         \* SpecDecoder: the futures of its load_async calls
    ready,           \* SpecDecoder: _hdr_ready/_regular_ready emissions queued
    asyncs,          \* SpecDecoder: number of load_async calls so far
    dlast,           \* SpecDecoder history: the call that ended in the last step
    nodes,           \* SpecTree: every window.CollectionItem created, by identity
    roots,           \* SpecTree: CollectionsModel.items
    tlast,           \* SpecTree history: the on_item_expanded call of the last step
    tags,            \* SpecFilter: FiltersBar.tags, the (name, value) of each
    mode_group,      \* SpecFilter: the text of the checked match-mode button
    active_filters,  \* SpecFilter: ThumbnailItemFilterProxyModel.active_filters
    filter_mode,     \* SpecFilter: ThumbnailItemFilterProxyModel.filter_mode
    flast,           \* SpecFilter history: the filterAcceptsRow call of the last step
    iconSize,        \* ThumbnailView.iconSize()
    thumbnails_widgets,  \* ThumbnailsContainerWidget.thumbnails_widgets (tabs)
    checked,         \* CollectionItem.checked of each checkable collection
    item_checked,    \* item_checked emissions queued for on_collection_checked
    clast,           \* SpecUncheck history: the handler that ran in the last step
    data_item,       \* a categories.CollectionItem: its files and files_loader
    llast            \* SpecFiles history: the load_files call of the last step

qvars == <<items, model, _pending_items, _is_loading, timers, stack, pool,
           jobs, last, invs, queue_raised>>

dvars == <<loader, futures, ready, asyncs, dlast>>

tvars == <<nodes, roots, tlast>>

fvars == <<tags, mode_group, active_filters, filter_mode, flast>>

svars == <<iconSize>>

cvars == <<thumbnails_widgets, checked, item_checked, clast>>

lvars == <<data_item, llast>>

vars == <<qvars, dvars, tvars, fvars, svars, cvars, lvars>>

Ids == 1..Len(items)

NoLoad == [ev |-> "none"]

\* ThumbnailItem.__init__ and the assignments of add_collection_item.
ThumbnailItem(path, collection_item, size) ==
    [path |-> path, collection_item |-> collection_item, valid |-> TRUE,
     image |-> placeholder, target_size |-> size, queue_loads |-> 0]

\* QSize(*default_item_size)
default_item_size == QSize(default_item_width, default_item_height)

\* The thread a load() called by _load_next_item runs on: item.load() is a
\* plain call, so it runs on the caller's (interactive) thread.
QueueLoadOnPool == "pool"

QueueLoadThread == "main"

\* ThreadPoolExecutor() default: min(32, cpu_count + 4) workers, at least 5.
max_workers == 5

\* The interactive thread is between handlers, or inside the processEvents()
\* call of _update_all_items: queued events and timers can be handled.
EventPoint == IF stack = <<>> THEN TRUE ELSE stack[Len(stack)].op = "f5"

Running == {j \in 1..Len(pool) : pool[j].pc = "run"}

\* load() executions in progress (past the isValid check, inside run()).
MainLoads == {k \in 1..Len(stack) : stack[k].op = "load"}

LoadsInProgress(i) ==
    Cardinality({k \in MainLoads : stack[k].item = i})
    + Cardinality({j \in Running : pool[j].item = i})

QueueLoadsInProgress ==
    Cardinality(MainLoads)
    + Cardinality({j \in Running : pool[j].origin = "queue"})

\* Submissions of file `path` not completed: items waiting in the queue,
\* jobs in the pool and load() calls in progress.
Outstanding(path) ==
    Cardinality({k \in 1..Len(_pending_items) :
                    items[_pending_items[k]].path = path})
    + Cardinality({j \in 1..Len(pool) :
                    pool[j].item # 0 /\ items[pool[j].item].path = path})
    + Cardinality({k \in MainLoads : items[stack[k].item].path = path})

\* History bookkeeping for a file, taken after the program variables of a
\* step in which a submission of it entered run() (entered = 1) or was
\* completed or dropped (entered = 0).
History(path, entered) ==
    \E p \in {path} :
        invs' = [invs EXCEPT ![p] =
                    IF Outstanding(p)' = 0 THEN 0 ELSE @ + entered]

\* ImageLoader.__init__
ImageLoader(path) ==
    [path |-> path, image |-> NullImage, target_size |-> QSize(0, 0)]

NoCall ==
    [op |-> "none", raised |-> "none", emitted |-> FALSE, returned |-> "None",
     changed |-> FALSE, submitted |-> FALSE]

InitLoader(paths) ==
    /\ loader \in {ImageLoader(path) : path \in paths}
    /\ futures = <<>>
    /\ ready = <<>>
    /\ asyncs = 0
    /\ dlast = NoCall

InitQueue ==
    /\ items = <<>>
    /\ model = <<>>
    /\ _pending_items = <<>>
    /\ _is_loading = FALSE
    /\ timers = 0
    /\ stack = <<>>
    /\ pool = <<>>
    /\ jobs = 0
    /\ last = NoLoad
    /\ invs = [p \in Files |-> 0]
    /\ queue_raised = FALSE
    /\ iconSize = default_item_size

\* ------------------------------------------------------ collection tree data
\* categories.CollectionItem objects, identified by their name. "s" and "l"
\* are the collections of the category; the others are returned by loaders.
\* "" is a collection without a name.
DataNames == {"s", "l", "x", "y", ""}

\* The names a collections_loader can report.
FreshNames == {"x", "y", ""}

\* CollectionItem.collections_loader: whether the data has one (not None).
data_collections_loader(data) == data \in {"l", "x"}

\* CollectionItem.collections: the statically listed sub-collections.
data_collections(data) ==
    CASE data = "s" -> <<"y">>
      [] data = "l" -> <<"x">>
      [] OTHER -> <<>>

\* bool(data.files or data.files_loader)
data_has_files(data) == data = "x"

\* CollectionItem.load_files(force=True) of the data.
data_files(data) == IF data = "x" THEN <<"a.png">> ELSE <<>>

\* CategoryItem.collections of the context.
category_collections == <<"s", "l">>

\* The results a collections_loader call can give: None, or a list of at
\* most MaxFresh collections (the same name may be listed more than once).
None == [none |-> TRUE]

List(l) == [list |-> l]

LoaderResults ==
    {None} \cup {List(l) : l \in UNION {[1..k -> FreshNames] : k \in 0..MaxFresh}}

\* No collections_loader call was made.
NotCalled == [notcalled |-> TRUE]

\* The node is made with no parent, and none is set afterwards.
CollectionItem_orphan(data, parent) ==
    [name |-> IF data = "" THEN "none" ELSE data,
     checkable |-> data_has_files(data),
     checked |-> "Unchecked",
     children |-> <<>>,
     parent |-> 0,
     expandable |-> data_collections_loader(data),
     data |-> data]

\* window.CollectionItem.__init__(data, parent)
CollectionItem(data, parent) ==
    [name |-> IF data = "" THEN "none" ELSE data,
     checkable |-> data_has_files(data),
     checked |-> "Unchecked",
     children |-> <<>>,
     parent |-> parent,
     expandable |-> data_collections_loader(data),
     data |-> data]

\* build_tree_items(collections), with the nodes created so far; a node
\* is created with parent None (0) and add_child sets the parent. The
\* result is the nodes and the list of those built for `collections`.
RECURSIVE build_tree_items(_, _, _)
build_tree_items(collections, parent, ns) ==
    IF collections = <<>>
    THEN [nodes |-> ns, items |-> <<>>]
    ELSE LET data == Head(collections)
             id == Len(ns) + 1
             node == CollectionItem(data, parent)
             sub == build_tree_items(data_collections(data), id,
                                     Append(ns, node))
             built == [sub.nodes EXCEPT ![id].children = sub.items]
             rest == build_tree_items(Tail(collections), parent, built)
         IN [nodes |-> rest.nodes, items |-> <<id>> \o rest.items]

NoExpand == [op |-> "none"]

\* MainWindow.add_context: model.items = build_tree_items(collections)
InitTree ==
    /\ nodes = build_tree_items(category_collections, 0, <<>>).nodes
    /\ roots = build_tree_items(category_collections, 0, <<>>).items
    /\ tlast = NoExpand

\* ------------------------------------------------------------ filter data
\* Python values met by the filter: a str, the bool True, None, a list.
Str(s) == [str |-> s]

True == [bool |-> TRUE]

\* The texts typed in the name and value fields of SetFilterDialog.
NameTexts == {"color", "kind", ""}

ValueTexts == {"red", "blue", ""}

\* The tags of a row: item.tags is None or a dict from keys to a str, True
\* (a tag that is only a label) or a list of str.
TagKeys == {"color", "kind"}

TagValues ==
    {Str("red"), Str("blue"), True, List(<<Str("red"), Str("blue")>>)}

TagMaps == {None} \cup UNION {[keys -> TagValues] : keys \in SUBSET TagKeys}

NoFilter == [op |-> "none"]

\* A dict: its keys in insertion order and the value of each key.
Dict(keys, at) == [keys |-> keys, at |-> at]

\* FiltersBar.__init__ (all_radio checked) and
\* ThumbnailItemFilterProxyModel.__init__
InitFilter ==
    /\ tags = <<>>
    /\ mode_group = "all"
    /\ active_filters = Dict(<<>>, <<>>)
    /\ filter_mode = "all"
    /\ flast = NoFilter

\* The lists of files a CollectionItem can hold or its files_loader return.
FileLists ==
    {<<>>, <<"a.png">>, <<"bad.png">>, <<"a.png", "bad.png">>}

\* categories.CollectionItem(name, files=..., files_loader=...): files is
\* None or a list, files_loader is None (FALSE) or a callable.
DataItem(files, files_loader) ==
    [files |-> files, files_loader |-> files_loader]

DataItems ==
    {DataItem(f, l) : f \in {None} \cup {List(fl) : fl \in FileLists},
                      l \in BOOLEAN}

InitDataItem(data_items) ==
    /\ data_item \in data_items
    /\ llast = [op |-> "none"]

\* The context of a category with expand_group: set_content(use_tabs=True)
\* creates no ThumbnailsWidget; every collection starts Qt.Unchecked.
InitContext ==
    /\ thumbnails_widgets = <<>>
    /\ checked = [c \in Collections |-> FALSE]
    /\ item_checked = <<>>
    /\ clast = [op |-> "none"]

Init ==
    InitQueue /\ InitLoader({"a.png"}) /\ InitTree /\ InitFilter
    /\ InitContext /\ InitDataItem({DataItem(List(<<"a.png">>), FALSE)})

Remove(seq, j) == SubSeq(seq, 1, j - 1) \o SubSeq(seq, j + 1, Len(seq))

\* What a load() that ran run() on item i leaves in `last`.
Loaded(i, thread, r) ==
    [ev |-> "load", thread |-> thread, valid |-> items[i].valid,
     mime |-> file_mime(items[i].path),
     before |-> items[i].image, after |-> r.image,
     emitted |-> r.emitted, raised |-> r.raised]

\* _thread_pool_executor.submit(_process_item, item); item 0 is None.
submit(pl, item, origin) ==
    Append(pl, [item |-> item, pc |-> "queued", origin |-> origin])

\* list.pop() without index: the last element is taken.
pop_last(pend) ==
    [item |-> pend[Len(pend)], rest |-> SubSeq(pend, 1, Len(pend) - 1)]

\* self._pending_items.pop(0): the first element is taken.
pop(pend) == [item |-> Head(pend), rest |-> Tail(pend)]

\* ThumbnailsWidget._load_next_item, entered with items, _pending_items, the
\* scheduled timers and _is_loading as the caller left them. When the item is
\* valid, load() enters run(): the interactive thread stays in it (a "load"
\* frame) until MainLoadEnd.
_load_next_item(its, pend, tm, loading) ==
    IF pend = <<>>
    THEN /\ _is_loading' = FALSE
         /\ _pending_items' = pend
         /\ items' = its
         /\ timers' = tm
         /\ UNCHANGED <<stack, pool, invs>>
    ELSE LET item == pop(pend).item IN
         /\ _is_loading' = loading
         /\ _pending_items' = pop(pend).rest
         /\ IF ~its[item].valid
            THEN \* load() returns at the isValid check; the timer is set
                 /\ items' = [its EXCEPT ![item].queue_loads = @ + 1]
                 /\ timers' = tm + 1
                 /\ UNCHANGED <<stack, pool>>
                 /\ History(its[item].path, 0)
            ELSE IF QueueLoadThread = "main"
            THEN /\ items' = [its EXCEPT ![item].queue_loads = @ + 1]
                 /\ stack' = Append(stack, [op |-> "load", item |-> item])
                 /\ timers' = tm
                 /\ UNCHANGED pool
                 /\ History(its[item].path, 1)
            ELSE /\ items' = [its EXCEPT ![item].queue_loads = @ + 1]
                 /\ pool' = submit(pool, item, "queue")
                 /\ timers' = tm + 1
                 /\ UNCHANGED <<stack, invs>>

\* ThumbnailsWidget.add_collection_item(path, collection_item=...)
add_collection_item_of(path, collection_item) ==
    /\ UNCHANGED <<dvars, tvars, fvars, svars, cvars, lvars>>
    /\ EventPoint
    /\ LET id == Len(items) + 1
           its == Append(items,
                         ThumbnailItem(path, collection_item, iconSize))
           pend == Append(_pending_items, id)
       IN /\ model' = Append(model, id)
          /\ IF ~_is_loading
             THEN _load_next_item(its, pend, timers, TRUE)
             ELSE /\ items' = its
                  /\ _pending_items' = pend
                  /\ UNCHANGED <<_is_loading, timers, stack, pool, invs>>
    /\ last' = NoLoad
    /\ UNCHANGED <<jobs, queue_raised>>

\* add_collection_item for a file of the collection that lists it.
add_collection_item(path) ==
    add_collection_item_of(path, collection_of(path))

\* A QTimer.singleShot(0, self._load_next_item) fires.
TimerFire ==
    /\ UNCHANGED <<dvars, tvars, fvars, svars, cvars, lvars>>
    /\ EventPoint
    /\ timers > 0
    /\ _load_next_item(items, _pending_items, timers - 1, _is_loading)
    /\ last' = NoLoad
    /\ UNCHANGED <<model, jobs, queue_raised>>

\* The interactive thread leaves run() inside load() inside _load_next_item:
\* on a normal return emitDataChanged() and singleShot follow; an exception
\* leaves load() and _load_next_item at once.
MainLoadEnd ==
    /\ UNCHANGED <<dvars, tvars, fvars, svars, cvars, lvars>>
    /\ stack # <<>>
    /\ stack[Len(stack)].op = "load"
    /\ LET i == stack[Len(stack)].item
           r == run(items[i].path, items[i].image, items[i].target_size)
       IN /\ items' = [items EXCEPT ![i].image = r.image]
          /\ last' = Loaded(i, "main", r)
          /\ timers' = IF r.raised = "none" THEN timers + 1 ELSE timers
          /\ queue_raised' = (queue_raised \/ r.raised # "none")
    /\ stack' = SubSeq(stack, 1, Len(stack) - 1)
    /\ UNCHANGED <<model, _pending_items, _is_loading, pool, jobs>>
    /\ History(items[stack[Len(stack)].item].path, 0)

\* A pool worker starts _process_item(item): item.refresh() -> load(), up to
\* the call of run().
JobBegin(j) ==
    /\ UNCHANGED <<dvars, tvars, fvars, svars, cvars, lvars>>
    /\ pool[j].pc = "queued"
    /\ Cardinality(Running) < max_workers
    /\ last' = NoLoad
    /\ UNCHANGED <<items, model, _pending_items, _is_loading, timers, stack,
                   jobs, queue_raised>>
    /\ LET i == pool[j].item IN
       IF (IF i = 0 THEN TRUE ELSE ~items[i].valid)
       THEN /\ pool' = Remove(pool, j)
            /\ IF i = 0 THEN UNCHANGED invs ELSE History(items[i].path, 0)
       ELSE /\ pool' = [pool EXCEPT ![j].pc = "run"]
            /\ History(items[i].path, 1)

\* The worker leaves run(): the image is assigned and image_loaded emitted by
\* the worker thread; an exception ends the job.
JobEnd(j) ==
    /\ UNCHANGED <<dvars, tvars, fvars, svars, cvars, lvars>>
    /\ pool[j].pc = "run"
    /\ LET i == pool[j].item
           r == run(items[i].path, items[i].image, items[i].target_size)
       IN /\ items' = [items EXCEPT ![i].image = r.image]
          /\ last' = Loaded(i, "pool", r)
          /\ queue_raised' =
                (queue_raised \/ (pool[j].origin = "queue" /\ r.raised # "none"))
    /\ pool' = Remove(pool, j)
    /\ UNCHANGED <<model, _pending_items, _is_loading, timers, stack, jobs>>
    /\ History(items[pool[j].item].path, 0)

\* ThumbnailView.mousePressEvent with the middle button on the item of a row.
mousePressEvent(row) ==
    /\ UNCHANGED <<dvars, tvars, fvars, svars, cvars, lvars>>
    /\ EventPoint
    /\ jobs < MaxJobs
    /\ pool' = submit(pool, model[row], "refresh")
    /\ jobs' = jobs + 1
    /\ last' = NoLoad
    /\ UNCHANGED <<items, model, _pending_items, _is_loading, timers, stack,
                   queue_raised, invs>>

\* ThumbnailsWidget.remove_collection_items(collection_item=c): the rows of
\* the collection are removed and their C++ items deleted.
remove_collection_items(c) ==
    /\ UNCHANGED <<dvars, tvars, fvars, svars, cvars, lvars>>
    /\ EventPoint
    /\ \E k \in 1..Len(model) : items[model[k]].collection_item = c
    /\ model' = SelectSeq(model, LAMBDA i : items[i].collection_item # c)
    /\ items' = [i \in Ids |->
            IF items[i].valid /\ items[i].collection_item = c
            THEN [items[i] EXCEPT !.valid = FALSE]
            ELSE items[i]]
    /\ last' = NoLoad
    /\ UNCHANGED <<_pending_items, _is_loading, timers, stack, pool, jobs,
                   queue_raised, invs>>

\* The item _update_all_items reads for a row: None past the last row.
item_of_row(row) == IF row <= Len(model) THEN model[row] ELSE 0

\* keyReleaseEvent(Key_F5) -> _update_all_items: rowCount is read once, the
\* first row's job is submitted and processEvents() entered. subs is
\* history: the items submitted by this call so far.
keyReleaseEvent_F5 ==
    /\ UNCHANGED <<dvars, tvars, fvars, svars, cvars, lvars>>
    /\ EventPoint
    /\ Len(model) > 0
    /\ pool' = submit(pool, item_of_row(1), "refresh")
    /\ stack' = Append(stack, [op |-> "f5", row |-> 1, n |-> Len(model),
                               subs |-> <<item_of_row(1)>>])
    /\ jobs' = jobs + 1
    /\ last' = NoLoad
    /\ UNCHANGED <<items, model, _pending_items, _is_loading, timers,
                   queue_raised, invs>>

\* processEvents() returns to the loop of _update_all_items: the next row's
\* job is submitted, or the loop ends.
_update_all_items ==
    /\ UNCHANGED <<dvars, tvars, fvars, svars, cvars, lvars>>
    /\ stack # <<>>
    /\ stack[Len(stack)].op = "f5"
    /\ LET f == stack[Len(stack)] IN
       IF f.row < f.n
       THEN /\ pool' = submit(pool, item_of_row(f.row + 1), "refresh")
            /\ stack' = [stack EXCEPT ![Len(stack)].row = @ + 1,
                                      ![Len(stack)].subs =
                                        Append(@, item_of_row(f.row + 1))]
            /\ jobs' = jobs + 1
            /\ last' = NoLoad
       ELSE /\ stack' = SubSeq(stack, 1, Len(stack) - 1)
            /\ UNCHANGED <<pool, jobs>>
            /\ last' = [ev |-> "refreshed", submitted |-> f.subs]
    /\ UNCHANGED <<items, model, _pending_items, _is_loading, timers,
                   queue_raised, invs>>

Next ==
    \/ \E path \in Files : Len(items) < MaxItems /\ add_collection_item(path)
    \/ TimerFire
    \/ MainLoadEnd
    \/ \E j \in 1..Len(pool) : JobBegin(j)
    \/ \E j \in 1..Len(pool) : JobEnd(j)
    \/ \E row \in 1..Len(model) : mousePressEvent(row)
    \/ \E c \in Collections : remove_collection_items(c)
    \/ jobs + Len(model) <= MaxJobs /\ keyReleaseEvent_F5
    \/ _update_all_items

Spec == Init /\ [][Next]_vars

\* ------------------------------------------------ refresh (SpecRefresh)
\* The F5 refresh of a view of several rows, with the handlers that
\* processEvents() can run between two submissions and the pool workers.
NextRefresh ==
    \/ \E path \in Files : Len(items) < MaxItems /\ add_collection_item(path)
    \/ TimerFire
    \/ MainLoadEnd
    \/ \E j \in 1..Len(pool) : JobBegin(j)
    \/ \E j \in 1..Len(pool) : JobEnd(j)
    \/ \E c \in Collections : remove_collection_items(c)
    \/ jobs + Len(model) <= MaxRefresh /\ keyReleaseEvent_F5
    \/ _update_all_items

SpecRefresh == Init /\ [][NextRefresh]_vars

\* ------------------------------------------------ icon size (SpecResize)
\* The values of size_slider (1..300) tried.
SliderValues == {50, 100, 200}

\* QSize * float: each dimension is multiplied and rounded.
QSizeTimes(size, percent) ==
    QSize((size.width * percent + 50) \div 100,
          (size.height * percent + 50) \div 100)

\* The size hint set and the image rescaled to it at once.
setSizeHint_rescaling(item, size) ==
    [item EXCEPT !.target_size = size,
                 !.image = QImage(@.format,
                                  scale(QSize(@.width, @.height), size))]

\* ThumbnailItem.setSizeHint(size) -> ImageLoader.set_scaled_size(size)
setSizeHint(item, size) == [item EXCEPT !.target_size = size]

\* ThumbnailView._update_items_sizehint: every item of the source model is
\* given the view's icon size.
_update_items_sizehint(size) ==
    items' = [i \in Ids |->
                IF \E row \in 1..Len(model) : model[row] = i
                THEN setSizeHint(items[i], size)
                ELSE items[i]]

\* ThumbnailView.setIconSize(size)
setIconSize(size) ==
    /\ iconSize' = size
    /\ _update_items_sizehint(size)

\* size_slider.valueChanged -> ThumbnailView.on_size_change(value), a queued
\* connection: the slot runs from the event loop.
on_size_change(value) ==
    /\ UNCHANGED <<dvars, tvars, fvars, cvars, lvars>>
    /\ EventPoint
    /\ setIconSize(QSizeTimes(default_item_size, value))
    /\ last' = [ev |-> "resize"]
    /\ UNCHANGED <<model, _pending_items, _is_loading, timers, stack, pool,
                   jobs, invs, queue_raised>>

NextResize ==
    \/ \E path \in Files : Len(items) < MaxItems /\ add_collection_item(path)
    \/ TimerFire
    \/ MainLoadEnd
    \/ \E value \in SliderValues : on_size_change(value)

SpecResize == Init /\ [][NextResize]_vars

\* ------------------------------------------------ bulk add (SpecBatch)
\* The load queue alone: a batch of add_collection_item calls, the timer
\* callbacks and the removal of collections, with no refresh job.
NextBatch ==
    \/ \E path \in Files : Len(items) < MaxBatch /\ add_collection_item(path)
    \/ TimerFire
    \/ MainLoadEnd
    \/ \E c \in Collections : remove_collection_items(c)

SpecBatch == Init /\ [][NextBatch]_vars

\* The event loop fires a due zero-delay timer, and a run() entered by the
\* interactive thread returns or raises.
FairBatch == SpecBatch /\ WF_vars(TimerFire) /\ WF_vars(MainLoadEnd)

\* ------------------------------------------------ collection tree (SpecTree)
Range(seq) == {seq[k] : k \in 1..Len(seq)}

\* The elements of a set of rows as a list, lowest row first.
Ascending(rows) ==
    CHOOSE f \in [1..Cardinality(rows) -> rows] :
        \A i, j \in 1..Cardinality(rows) : i < j => f[i] < f[j]

\* reversed(to_remove): the rows to remove as a list, highest row first.
Descending(rows) ==
    CHOOSE f \in [1..Cardinality(rows) -> rows] :
        \A i, j \in 1..Cardinality(rows) : i < j => f[i] > f[j]

\* The nodes of the tree: CollectionsModel.items and all their descendants.
RECURSIVE Closure(_)
Closure(ids) ==
    LET more == ids \cup UNION {Range(nodes[c].children) : c \in ids}
    IN IF more = ids THEN ids ELSE Closure(more)

TreeNodes == Closure(Range(roots))

\* CollectionsModel.hasChildren: the view can expand the node.
hasChildren(item) == item.children # <<>> \/ item.expandable

\* The guard of on_item_expanded left out: no node is refused.
never_refused(item) == FALSE

\* `if not item.expandable: return`
not_expandable(item) == ~item.expandable

\* The loader's result used as it is.
or_nothing(result) == result

\* `item.data.collections_loader(item.data) or []`
or_empty(result) == IF result = None THEN List(<<>>) ELSE result

\* Every child is taken for removal.
remove_all(item, new_by_name) == 1..Len(item.children)

\* No child is taken for removal.
remove_nothing(item, new_by_name) == {}

\* to_remove of on_item_expanded: the rows (from 1) of the children whose
\* name is not a key of new_by_name.
to_remove(item, new_by_name) ==
    {r \in 1..Len(item.children) :
        nodes[item.children[r]].name \notin new_by_name}

\* The removal loop: children.pop(row) for each row of the list.
RECURSIVE pop_rows(_, _)
pop_rows(children, rows) ==
    IF rows = <<>> THEN children
    ELSE pop_rows(Remove(children, Head(rows)), Tail(rows))

\* A node is made for every fresh entry.
all_fresh(item, children_data) == children_data

\* new_children of on_item_expanded: the data of the fresh entries whose name
\* is not a key of existing_by_name (the names of the present children).
new_children(item, children_data) ==
    LET existing_by_name == {nodes[c].name : c \in Range(item.children)}
    IN SelectSeq(children_data, LAMBDA d : d \notin existing_by_name)

\* What an on_item_expanded call on node n leaves in tlast: whether the
\* loader was called and its result, the exception that left the handler,
\* the children before and the row notifications (begin...Rows) in the
\* order issued.
Expanded(n, called, result, raised, signals) ==
    [op |-> "expand", node |-> n, called |-> called, result |-> result,
     raised |-> raised, before |-> nodes[n].children, signals |-> signals]

\* The expansion drops the items of the node's children from the view.
on_item_expanded_purging(n, result) ==
    /\ model' = SelectSeq(model, LAMBDA i :
                    items[i].collection_item \notin Range(nodes[n].children))
    /\ nodes' = [nodes EXCEPT ![n].children = <<>>]
    /\ tlast' = Expanded(n, TRUE, result, "none", <<>>)
    /\ UNCHANGED <<items, _pending_items, _is_loading, timers, stack, pool,
                   jobs, last, invs, queue_raised>>
    /\ UNCHANGED <<dvars, fvars, svars, cvars, lvars, roots>>

\* ContextWidget.on_item_expanded(index) with index.internalPointer() the
\* node n and `result` what the node's collections_loader returns.
on_item_expanded(n, result) ==
    /\ UNCHANGED <<qvars, dvars, fvars, svars, cvars, lvars, roots>>
    /\ LET item == nodes[n] IN
       IF not_expandable(item)
       THEN /\ nodes' = nodes
            /\ tlast' = Expanded(n, FALSE, NotCalled, "none", <<>>)
       ELSE IF ~data_collections_loader(item.data)
       THEN \* None is called
            /\ nodes' = nodes
            /\ tlast' = Expanded(n, FALSE, NotCalled, "TypeError", <<>>)
       ELSE IF or_empty(result) = None
       THEN \* None is iterated
            /\ nodes' = nodes
            /\ tlast' = Expanded(n, TRUE, result, "TypeError", <<>>)
       ELSE LET children_data == or_empty(result).list
                new_by_name == Range(children_data)
                rows == Descending(to_remove(item, new_by_name))
                removed == [k \in 1..Len(rows) |->
                        [kind |-> "remove", first |-> rows[k] - 1,
                         last |-> rows[k] - 1]]
                kept == pop_rows(item.children, rows)
                new == new_children(item, children_data)
                inserted ==
                    IF new = <<>> THEN <<>>
                    ELSE <<[kind |-> "insert", first |-> Len(kept),
                            last |-> Len(kept) + Len(new) - 1]>>
            IN /\ nodes' = [id \in 1..(Len(nodes) + Len(new)) |->
                    IF id = n
                    THEN [item EXCEPT
                            !.children = kept \o
                                [k \in 1..Len(new) |-> Len(nodes) + k]]
                    ELSE IF id <= Len(nodes) THEN nodes[id]
                    ELSE CollectionItem(new[id - Len(nodes)], n)]
               /\ tlast' = Expanded(n, TRUE, result, "none",
                                    removed \o inserted)

\* CollectionsModel.setData(index, value, CheckStateRole): the check box of
\* a checkable node is toggled.
setData(n) ==
    /\ UNCHANGED <<qvars, dvars, fvars, svars, cvars, lvars, roots>>
    /\ nodes[n].checkable
    /\ nodes' = [nodes EXCEPT ![n].checked =
                    IF @ = "Checked" THEN "Unchecked" ELSE "Checked"]
    /\ tlast' = NoExpand

NextTree ==
    \/ \E n \in TreeNodes, result \in LoaderResults :
            /\ hasChildren(nodes[n])
            /\ Len(nodes) + Len(new_children(nodes[n],
                        IF result = None THEN <<>> ELSE result.list))
                    <= MaxNodes
            /\ on_item_expanded(n, result)
    \/ \E n \in TreeNodes : setData(n)

SpecTree == Init /\ [][NextTree]_vars

\* ------------------------------------- tree and catalog (SpecOrphan)
\* ContextWidget.on_collection_checked(item), the slot of a queued
\* item_checked notification of node n, run while the node is checked: the
\* file of its data is added with collection_item = the node.
on_node_checked(n) ==
    /\ nodes[n].checkable
    /\ nodes[n].checked = "Checked"
    /\ add_collection_item_of(data_files(nodes[n].data)[1], n)

\* The slot run while the node is unchecked: remove_collection_items.
on_node_unchecked(n) ==
    /\ nodes[n].checkable
    /\ nodes[n].checked = "Unchecked"
    /\ remove_collection_items(n)

\* The results of the loaders of this context.
ContextResults == {List(<<>>), List(<<"x">>)}

NextOrphan ==
    \/ \E n \in TreeNodes, result \in ContextResults :
            /\ hasChildren(nodes[n])
            /\ Len(nodes) + Len(new_children(nodes[n],
                        IF result = None THEN <<>> ELSE result.list))
                    <= MaxNodes
            /\ on_item_expanded(n, result)
    \/ \E n \in TreeNodes : setData(n)
    \/ \E n \in 1..Len(nodes) : Len(items) < MaxItems /\ on_node_checked(n)
    \/ \E n \in 1..Len(nodes) : on_node_unchecked(n)
    \/ TimerFire
    \/ MainLoadEnd

SpecOrphan == Init /\ [][NextOrphan]_vars

\* ------------------------------------------------------ filters (SpecFilter)
\* SetFilterDialog.get_data: an empty value field gives True, the
\* label-only flag.
get_data(name, value) ==
    [name |-> name, value |-> IF value = "" THEN True ELSE Str(value)]

\* Only the mode reaches the proxy model; its filters stay as they were.
emit_mode_only(tgs, mode) ==
    /\ active_filters' = active_filters
    /\ filter_mode' = mode

\* FiltersBar.emit_filters -> ThumbnailsWidget.on_filters_changed: the
\* values of the tags grouped by name, and the checked mode, are stored in
\* the proxy model.
emit_filters(tgs, mode) ==
    /\ active_filters' = Dict(
            LET first == SelectSeq([k \in 1..Len(tgs) |-> k],
                    LAMBDA k : \A j \in 1..(k - 1) : tgs[j].name # tgs[k].name)
            IN [k \in 1..Len(first) |-> tgs[first[k]].name],
            [name \in {tgs[k].name : k \in 1..Len(tgs)} |->
                LET same == SelectSeq(tgs, LAMBDA t : t.name = name)
                IN [k \in 1..Len(same) |-> same[k].value]])
    /\ filter_mode' = mode

\* FiltersBar.add_new_filter with the dialog accepted -> add_filter
add_new_filter(name, value) ==
    /\ UNCHANGED <<qvars, dvars, tvars, svars, cvars, lvars>>
    /\ Len(tags) < MaxTags
    /\ name # ""
    /\ tags' = Append(tags, get_data(name, value))
    /\ emit_filters(tags', mode_group)
    /\ UNCHANGED mode_group
    /\ flast' = NoFilter

\* FilterTag.edit_filter with the dialog accepted -> updated -> emit_filters
edit_filter(k, name, value) ==
    /\ UNCHANGED <<qvars, dvars, tvars, svars, cvars, lvars>>
    /\ name # ""
    /\ tags' = [tags EXCEPT ![k] = get_data(name, value)]
    /\ emit_filters(tags', mode_group)
    /\ UNCHANGED mode_group
    /\ flast' = NoFilter

\* FilterTag.on_remove -> FiltersBar.remove_filter(tag)
remove_filter(k) ==
    /\ UNCHANGED <<qvars, dvars, tvars, svars, cvars, lvars>>
    /\ tags' = Remove(tags, k)
    /\ emit_filters(tags', mode_group)
    /\ UNCHANGED mode_group
    /\ flast' = NoFilter

\* A match-mode radio button is clicked: buttonClicked -> emit_filters
buttonClicked(mode) ==
    /\ UNCHANGED <<qvars, dvars, tvars, svars, cvars, lvars>>
    /\ mode_group' = mode
    /\ emit_filters(tags, mode)
    /\ UNCHANGED tags
    /\ flast' = NoFilter

\* `if not isinstance(v, (list, tuple, set)): v = [v]`
as_list(v) == IF DOMAIN v = {"list"} THEN v.list ELSE <<v>>

\* One accepted value among the tag's values is enough.
one_suffices(filter_values, tag_values) ==
    \E x \in Range(filter_values) : x \in Range(tag_values)

\* any(x in tag_values for x in filter_values)
match_any(filter_values, tag_values) ==
    \E x \in Range(filter_values) : x \in Range(tag_values)

\* all(x in tag_values for x in filter_values)
match_all(filter_values, tag_values) ==
    \A x \in Range(filter_values) : x \in Range(tag_values)

\* The guard left out: the filter set is never taken for empty.
never_empty(filters) == FALSE

\* `if not self.active_filters`
no_active_filter(filters) == filters.keys = <<>>

\* A missing key is given the value True.
get_or_true(item_tags, key) ==
    IF key \in DOMAIN item_tags THEN item_tags[key] ELSE True

\* tags.get(key, None)
get(item_tags, key) ==
    IF key \in DOMAIN item_tags THEN item_tags[key] ELSE None

\* The first predicate decides alone.
first_decides(results, mode) == results[1]

\* Every predicate must hold, in both modes.
combine_and(results, mode) == \A k \in 1..Len(results) : results[k]

\* `all(matches) if self.filter_mode == 'all' else any(matches)`
combine(results, mode) ==
    IF mode = "all"
    THEN \A k \in 1..Len(results) : results[k]
    ELSE \E k \in 1..Len(results) : results[k]

\* The body of filterAcceptsRow past the guard, for the filters, the mode
\* and the item.tags given: the result of each predicate by key, the
\* `matches` list (in the order of the dict) and the value returned.
evaluate(filters, mode, row_tags) ==
    LET item_tags == IF row_tags = None THEN <<>> ELSE row_tags
        by_key == [key \in Range(filters.keys) |->
            LET filter_values == as_list(List(filters.at[key]))
                tag_values == as_list(get(item_tags, key))
            IN IF mode = "all"
               THEN match_all(filter_values, tag_values)
               ELSE match_any(filter_values, tag_values)]
        list == [k \in 1..Len(filters.keys) |-> by_key[filters.keys[k]]]
    IN [matches |-> by_key, list |-> list, accepted |-> combine(list, mode)]

\* The `matches` of filterAcceptsRow for a row whose item.tags is row_tags,
\* by key of active_filters.
matches(row_tags) == evaluate(active_filters, filter_mode, row_tags).matches

\* ThumbnailItemFilterProxyModel.filterAcceptsRow on a row whose item.tags is
\* row_tags.
filterAcceptsRow(row_tags) ==
    /\ UNCHANGED <<qvars, dvars, tvars, svars, cvars, lvars>>
    /\ UNCHANGED <<tags, mode_group, active_filters, filter_mode>>
    /\ flast' =
        [op |-> "filter", tags |-> row_tags,
         matches |-> IF no_active_filter(active_filters) THEN <<>>
                     ELSE matches(row_tags),
         accepted |->
            IF no_active_filter(active_filters) THEN TRUE
            ELSE evaluate(active_filters, filter_mode, row_tags).accepted]

NextFilter ==
    \/ \E name \in NameTexts, value \in ValueTexts :
            add_new_filter(name, value)
    \/ \E k \in 1..Len(tags), name \in NameTexts, value \in ValueTexts :
            edit_filter(k, name, value)
    \/ \E k \in 1..Len(tags) : remove_filter(k)
    \/ \E mode \in {"all", "any"} : buttonClicked(mode)
    \/ \E row_tags \in TagMaps : filterAcceptsRow(row_tags)

SpecFilter == Init /\ [][NextFilter]_vars

\* ------------------------------------------------- one loader (SpecDecoder)
\* The target sizes given to set_scaled_size.
TargetSizes == {QSize(0, 0), QSize(100, 100), default_item_size}

\* What a call on the loader leaves in dlast: the exception that left it,
\* whether image_loaded was emitted, the value returned (every return of
\* run, load_async, when_done and the slots is a bare return: None), whether
\* the loader's image changed and whether executor.submit was called.
Called(op, r) ==
    [op |-> op, raised |-> r.raised, emitted |-> r.emitted,
     returned |-> IF r.raised = "none" THEN "None" ELSE "raised",
     changed |-> r.image # loader.image, submitted |-> FALSE]

\* ImageLoader.set_scaled_size(size)
set_scaled_size(size) ==
    /\ size # loader.target_size
    /\ loader' = [loader EXCEPT !.target_size = size]
    /\ dlast' = NoCall
    /\ UNCHANGED <<futures, ready, asyncs, qvars, tvars, fvars, svars, cvars, lvars>>

\* ImageLoader.run() called on the loader (the synchronous path).
loader_run ==
    /\ LET r == run(loader.path, loader.image, loader.target_size)
       IN /\ loader' = [loader EXCEPT !.image = r.image]
          /\ dlast' = Called("run", r)
    /\ UNCHANGED <<futures, ready, asyncs, qvars, tvars, fvars, svars, cvars, lvars>>

\* ImageLoader.load_async(executor): nothing for a file that is no image;
\* otherwise task is submitted and when_done registered on its future.
\* at_submit is history: the loader's target_size when the task was
\* submitted (the closure of task holds file_path, file_mime and self).
load_async ==
    /\ asyncs < MaxAsync
    /\ asyncs' = asyncs + 1
    /\ futures' = IF ~is_image(loader.path) THEN futures
                  ELSE Append(futures, [state |-> "pending",
                                        at_submit |-> loader.target_size])
    /\ dlast' = [Called("load_async", Outcome(loader.image, FALSE, "none"))
                    EXCEPT !.submitted = is_image(loader.path)]
    /\ UNCHANGED <<loader, ready, qvars, tvars, fvars, svars, cvars, lvars>>

\* task() of load_async, run by an executor worker: its result, or the
\* exception it raised, is stored in the future. target_size is read from
\* the loader when the task runs.
task(k) ==
    /\ futures[k].state = "pending"
    /\ futures' = [futures EXCEPT ![k] =
        IF file_mime(loader.path) \in hdr_mimes /\ _oiio_available
        THEN LET d == oiio_read(loader.path)
             IN IF d.raised # "none"
                THEN [state |-> "exception", raised |-> d.raised]
                ELSE [state |-> "result", kind |-> "hdr", data |-> d]
        ELSE [state |-> "result", kind |-> "regular",
              data |-> image_reader_read(loader.path, loader.target_size)]]
    /\ dlast' = NoCall
    /\ UNCHANGED <<loader, ready, asyncs, qvars, tvars, fvars, svars, cvars, lvars>>

\* when_done(future_), the done callback: future_.result() re-raises the
\* exception of the task; otherwise the result is emitted with _hdr_ready or
\* _regular_ready, queued for the loader's thread.
when_done(k) ==
    /\ futures[k].state # "pending"
    /\ futures' = Remove(futures, k)
    /\ IF futures[k].state = "exception"
       THEN /\ dlast' = Called("when_done",
                    Outcome(loader.image, FALSE, futures[k].raised))
            /\ UNCHANGED ready
       ELSE /\ dlast' = Called("when_done",
                    Outcome(loader.image, FALSE, "none"))
            /\ ready' = Append(ready, [kind |-> futures[k].kind,
                                       data |-> futures[k].data])
    /\ UNCHANGED <<loader, asyncs, qvars, tvars, fvars, svars, cvars, lvars>>

\* _on_regular_ready(data)
_on_regular_ready(data) ==
    LET qimage ==
            IF ~isNull(loader.target_size) /\ data # NullImage
            THEN QImage(data.format,
                        scale(QSize(data.width, data.height),
                              loader.target_size))
            ELSE data
    IN Outcome(qimage, TRUE, "none")

\* _on_hdr_ready(data)
_on_hdr_ready(data) ==
    LET q == hdr_to_qimage(data.width, data.height, data.channels)
    IN IF q.raised # "none"
       THEN Outcome(loader.image, FALSE, q.raised)
       ELSE Outcome(q.image, TRUE, "none")

\* The slot of the oldest queued _hdr_ready/_regular_ready emission runs.
ready_slot ==
    /\ ready # <<>>
    /\ LET r == IF Head(ready).kind = "hdr"
                THEN _on_hdr_ready(Head(ready).data)
                ELSE _on_regular_ready(Head(ready).data)
       IN /\ loader' = [loader EXCEPT !.image = r.image]
          /\ dlast' = Called("slot", r)
    /\ ready' = Tail(ready)
    /\ UNCHANGED <<futures, asyncs, qvars, tvars, fvars, svars, cvars, lvars>>

NextDecoder ==
    \/ \E size \in TargetSizes : set_scaled_size(size)
    \/ loader_run
    \/ load_async
    \/ \E k \in 1..Len(futures) : task(k)
    \/ \E k \in 1..Len(futures) : when_done(k)
    \/ ready_slot

InitDecoder ==
    InitQueue /\ InitLoader(AllFiles) /\ InitTree /\ InitFilter
    /\ InitContext /\ InitDataItem({DataItem(List(<<"a.png">>), FALSE)})

SpecDecoder == InitDecoder /\ [][NextDecoder]_vars

\* ------------------------------------------ load_files (SpecFiles)
\* self.files returned as it is.
files_as_is(files) == files

\* `self.files or []`
files_or_empty(files) ==
    IF files = None \/ files = List(<<>>) THEN List(<<>>) ELSE files

\* CollectionItem.load_files(force), `result` being what files_loader(self)
\* returns if it is called. llast is history: the cache before, whether the
\* loader was called (how many times) and the value returned.
load_files(force, result) ==
    LET call == data_item.files_loader
                    /\ (data_item.files = None \/ force)
        files == IF call THEN result ELSE data_item.files
    IN /\ data_item' = [data_item EXCEPT !.files = files]
       /\ llast' = [op |-> "load_files", force |-> force,
                    before |-> data_item.files, result |-> result,
                    called |-> IF call THEN 1 ELSE 0,
                    returned |-> files_or_empty(files)]
       /\ UNCHANGED <<qvars, dvars, tvars, fvars, svars, cvars>>

\* What a files_loader can return.
FilesLoaderResults == {None} \cup {List(fl) : fl \in FileLists}

NextFiles ==
    \E force \in BOOLEAN, result \in FilesLoaderResults :
        load_files(force, result)

InitFiles ==
    InitQueue /\ InitLoader({"a.png"}) /\ InitTree /\ InitFilter
    /\ InitContext /\ InitDataItem(DataItems)

SpecFiles == InitFiles /\ [][NextFiles]_vars

\* ------------------------------------- check and uncheck (SpecUncheck)
\* CollectionItem.files of each collection, and FileItem.group of each file
\* (None: the file has no group).
collection_files(c) ==
    IF c = "c1" THEN <<"a.png", "gray.exr">> ELSE <<"bad.png", "notes.txt">>

group_of(path) ==
    CASE path \in {"a.png", "bad.png"} -> Str("g1")
      [] path = "gray.exr" -> Str("g2")
      [] OTHER -> None

\* CollectionItem.files_by_group: the groups in the order of their first
\* file, and the files of each (a file with no group is left out).
files_by_group(c) ==
    LET files == SelectSeq(collection_files(c),
                           LAMBDA f : group_of(f) # None)
        first == SelectSeq([k \in 1..Len(files) |-> k],
                    LAMBDA k : \A j \in 1..(k - 1) :
                        group_of(files[j]) # group_of(files[k]))
    IN Dict([k \in 1..Len(first) |-> group_of(files[first[k]])],
            [g \in {group_of(files[k]) : k \in 1..Len(files)} |->
                SelectSeq(files, LAMBDA f : group_of(f) = g)])

\* The ThumbnailItems in the models of the widgets.
Thumbs(tws) == UNION {Range(tws[w].model) : w \in 1..Len(tws)}

\* A new ThumbnailItem: an identity no item of the models has.
NewThumb(tws, path, c) ==
    [id |-> CHOOSE n \in 1..(Cardinality(Thumbs(tws)) + 1) :
                /\ \A t \in Thumbs(tws) : t.id # n
                /\ \A m \in 1..(n - 1) : \E t \in Thumbs(tws) : t.id = m,
     path |-> path, collection_item |-> c]

\* get_thumbnails_widget(label) with tabs: the first tab of that text, or
\* None (0).
get_thumbnails_widget(tws, label) ==
    IF \E w \in 1..Len(tws) : tws[w].label = label
    THEN CHOOSE w \in 1..Len(tws) :
            /\ tws[w].label = label
            /\ \A v \in 1..(w - 1) : tws[v].label # label
    ELSE 0

\* add_thumbnails_widget(label): the widgets afterwards and the one returned.
add_thumbnails_widget(tws, label) ==
    IF get_thumbnails_widget(tws, label) # 0
    THEN [widgets |-> tws, tw |-> get_thumbnails_widget(tws, label)]
    ELSE [widgets |-> Append(tws, [label |-> label, model |-> <<>>]),
          tw |-> Len(tws) + 1]

\* The loop `for file in grouped_files: tw.add_collection_item(...)`.
RECURSIVE add_files(_, _, _, _)
add_files(tws, tw, files, c) ==
    IF files = <<>> THEN tws
    ELSE add_files(
            [tws EXCEPT ![tw].model =
                Append(@, NewThumb(tws, Head(files), c))],
            tw, Tail(files), c)

\* _fill_collection_from_files with expand_group, from group k on.
RECURSIVE _fill_collection_from_files(_, _, _)
_fill_collection_from_files(tws, c, k) ==
    LET grouped == files_by_group(c) IN
    IF k > Len(grouped.keys) THEN tws
    ELSE LET added == add_thumbnails_widget(tws, grouped.keys[k])
         IN _fill_collection_from_files(
                add_files(added.widgets, added.tw,
                          grouped.at[grouped.keys[k]], c),
                c, k + 1)

\* The row of an item in a model: QStandardItem.row().
row_of(mdl, item) == CHOOSE k \in 1..Len(mdl) : mdl[k] = item

\* Only the first row of the collection is removed.
remove_first_row(mdl, snapshot, c) ==
    IF \E k \in 1..Len(mdl) : mdl[k].collection_item = c
    THEN Remove(mdl, CHOOSE k \in 1..Len(mdl) :
                        /\ mdl[k].collection_item = c
                        /\ \A j \in 1..(k - 1) : mdl[j].collection_item # c)
    ELSE mdl

\* The loop of ThumbnailsWidget.remove_collection_items over the items
\* _get_items_from_model listed before the loop: removeRow(item.row()) for
\* each item of the collection.
RECURSIVE remove_rows(_, _, _)
remove_rows(mdl, snapshot, c) ==
    IF snapshot = <<>> THEN mdl
    ELSE IF Head(snapshot).collection_item = c
    THEN remove_rows(Remove(mdl, row_of(mdl, Head(snapshot))),
                     Tail(snapshot), c)
    ELSE remove_rows(mdl, Tail(snapshot), c)

\* _get_items_from_model(model): the item of every row (one column).
_get_items_from_model(mdl) == mdl

\* CollectionsModel.setData(index, value, CheckStateRole) on a collection:
\* item.checked = value, then item_checked is emitted (a queued connection).
setChecked(c) ==
    /\ UNCHANGED <<qvars, dvars, tvars, fvars, svars, lvars>>
    /\ checked' = [checked EXCEPT ![c] = ~@]
    /\ item_checked' = Append(item_checked, c)
    /\ clast' = [op |-> "none"]
    /\ UNCHANGED thumbnails_widgets

\* ContextWidget.on_collection_checked(item) for the oldest queued emission:
\* item.checked is read when the slot runs.
on_collection_checked ==
    /\ UNCHANGED <<qvars, dvars, tvars, fvars, svars, lvars>>
    /\ item_checked # <<>>
    /\ item_checked' = Tail(item_checked)
    /\ UNCHANGED checked
    /\ LET item == Head(item_checked) IN
       IF ~checked[item]
       THEN /\ thumbnails_widgets' =
                [w \in 1..Len(thumbnails_widgets) |->
                    [thumbnails_widgets[w] EXCEPT !.model =
                        remove_rows(@, _get_items_from_model(@), item)]]
            /\ clast' = [op |-> "uncheck", item |-> item]
       ELSE /\ thumbnails_widgets' =
                _fill_collection_from_files(thumbnails_widgets, item, 1)
            /\ clast' = [op |-> "check", item |-> item]

NextUncheck ==
    \/ \E c \in Collections :
            Len(item_checked) < MaxChecks /\ setChecked(c)
    \/ /\ item_checked # <<>>
       /\ checked[Head(item_checked)] =>
            Cardinality(Thumbs(thumbnails_widgets))
                + Len(collection_files(Head(item_checked))) <= MaxThumbs
       /\ on_collection_checked

SpecUncheck == Init /\ [][NextUncheck]_vars

\* ----------------------------------------------------------------- claims
\* C1: items added through add_collection_item are decoded one at a time: at
\* most one item taken from _pending_items is inside load() at any time, and
\* while it is, no further _load_next_item run is scheduled (the next run is
\* scheduled only after load() has returned).
C1_OneQueueLoadAtATime ==
    /\ QueueLoadsInProgress <= 1
    /\ QueueLoadsInProgress = 1 => timers = 0

\* A later item of the queue is being decoded by a timer run, after the
\* first item's load() has returned.
C1_Witness ==
    /\ QueueLoadsInProgress = 1
    /\ Len(items) >= 2
    /\ items[1].queue_loads = 1
    /\ stack[Len(stack)].op = "load"
    /\ stack[Len(stack)].item = 2

\* C2: decode work for an added item never executes on the interactive
\* thread: the interactive thread is never inside ImageLoader.run.
C2_NoDecodeOnInteractiveThread == MainLoads = {}

\* C3: a decode result is applied to the item (image assigned, image_loaded
\* emitted) and signalled (emitDataChanged, reached when run() returns) only
\* on the interactive thread, never from a thread-pool worker.
C3_AppliedOnInteractiveThread ==
    (last.ev = "load" /\ (last.emitted \/ last.raised = "none"))
        => last.thread = "main"

\* C4: no ThumbnailItem ever has two load() executions in progress at once.
C4_SingleLoadPerItem == \A i \in Ids : LoadsInProgress(i) <= 1

\* C5: submissions of one source identity that overlap (the later made before
\* the earlier completed) result in one decoder invocation for it.
C5_SingleFlight == \A p \in Files : invs[p] <= 1

\* C6: once the load queue has run to completion (no _load_next_item run is
\* scheduled or executing), no item is left in _pending_items and the queue
\* has called load() exactly once on every item added.
C6_EveryItemLoadedOnce ==
    (timers = 0 /\ MainLoads = {})
        => /\ _pending_items = <<>>
           /\ \A i \in Ids : items[i].queue_loads = 1

\* C7: after a load() called by the queue has raised, the load loop keeps
\* being scheduled: while items wait in _pending_items a _load_next_item run
\* is scheduled or executing, and without waiting items and runs _is_loading
\* is false.
C7_LoopSurvivesFailure ==
    queue_raised =>
        /\ _pending_items # <<>> => (timers > 0 \/ MainLoads # {})
        /\ (timers = 0 /\ MainLoads = {}) => ~_is_loading

\* C8: a load never assigns an image to, nor emits a notification for, an
\* item that has been removed from the catalogue.
C8_NoResultForRemovedItem ==
    last.ev = "load" => (last.valid \/ (~last.emitted /\ last.after = last.before))

\* C9: when a decode fails (null image from the regular reader, exception in
\* the HDR decode), the item's image stays what it was before the load.
C9_FailureKeepsImage ==
    (last.ev = "load" /\ (last.raised # "none" \/ last.after = NullImage))
        => last.after = last.before

\* C10: a decode failure never leaves the decoder as an exception: neither
\* run(), nor the completion callback of load_async, nor the slot that
\* converts the result raises.
C10_NoExceptionLeavesDecoder == dlast.raised = "none"

C12_FirstInFirstOut ==
    /\ \A i, j \in Ids :
            (i < j /\ items[j].queue_loads > 0) => items[i].queue_loads > 0
    /\ \A k \in 1..(Len(_pending_items) - 1) :
            _pending_items[k] < _pending_items[k + 1]

C12_Witness ==
    /\ Len(items) = 3
    /\ items[2].queue_loads = 1
    /\ _pending_items = <<3>>
    /\ stack # <<>>

\* The last step was an on_item_expanded call that reconciled the children
\* of tlast.node with the loader's result, and the list it reconciled with.
Reconciled == tlast.op = "expand" /\ tlast.called /\ tlast.raised = "none"

Fresh == IF tlast.result = None THEN <<>> ELSE tlast.result.list

\* C13: after on_item_expanded on an expandable node, its children are the
\* previous children whose name is in the fresh result, in their previous
\* order, followed by one new node for each fresh entry whose name was not
\* among the previous children, in the order of the fresh data; previous
\* children whose name is absent from the fresh result are gone.
C13_ChildrenAfterExpansion ==
    Reconciled =>
        LET after == nodes[tlast.node].children
            survivors == SelectSeq(tlast.before,
                            LAMBDA c : nodes[c].name \in Range(Fresh))
            previous_names == {nodes[c].name : c \in Range(tlast.before)}
            entries == SelectSeq(Fresh, LAMBDA d : d \notin previous_names)
        IN /\ Len(after) = Len(survivors) + Len(entries)
           /\ SubSeq(after, 1, Len(survivors)) = survivors
           /\ \A k \in 1..Len(entries) :
                LET c == after[Len(survivors) + k]
                IN /\ c \notin Range(tlast.before)
                   /\ nodes[c].data = entries[k]
                   /\ nodes[c].parent = tlast.node
                   /\ nodes[c].children = <<>>
                   /\ \A m \in 1..Len(entries) :
                        m # k => after[Len(survivors) + m] # c
           /\ \A c \in Range(tlast.before) :
                nodes[c].name \notin Range(Fresh) => c \notin Range(after)

C13_Witness ==
    /\ Reconciled
    /\ Len(tlast.before) = 2
    /\ Len(tlast.signals) = 2
    /\ tlast.signals[1].kind = "remove"
    /\ tlast.signals[2].kind = "insert"
    /\ Len(nodes[tlast.node].children) = 2

C15_KeptChildUntouched ==
    [][(tlast'.op = "expand" /\ tlast'.called /\ tlast'.raised = "none") =>
        LET n == tlast'.node
            fresh == IF tlast'.result = None THEN <<>> ELSE tlast'.result.list
        IN \A c \in Range(nodes[n].children) :
            nodes[c].name \in Range(fresh) =>
                /\ c \in Range(nodes'[n].children)
                /\ nodes'[c] = nodes[c]]_vars

C15_Witness ==
    /\ Reconciled
    /\ tlast.signals # <<>>
    /\ \E c \in Range(tlast.before) :
        /\ nodes[c].name \in Range(Fresh)
        /\ c \in Range(nodes[tlast.node].children)
        /\ nodes[c].children # <<>>
        /\ nodes[c].checked = "Checked"

\* C16: reconciliation is idempotent: when on_item_expanded runs twice in a
\* row on the same node and the loader returns the same data both times,
\* the second run issues no beginRemoveRows and no beginInsertRows.
C16_SecondRunChangesNothing ==
    [][(/\ tlast.op = "expand" /\ tlast.called /\ tlast.raised = "none"
        /\ tlast'.op = "expand" /\ tlast'.called /\ tlast'.raised = "none"
        /\ tlast'.node = tlast.node
        /\ tlast'.result = tlast.result)
            => tlast'.signals = <<>>]_vars

\* The row notifications of the last reconciliation, by kind.
Removals == SelectSeq(tlast.signals, LAMBDA e : e.kind = "remove")

Insertions == SelectSeq(tlast.signals, LAMBDA e : e.kind = "insert")

\* The rows (from 0) in the previous children list of the children the last
\* reconciliation removed, and the number of children it inserted.
RemovedRows ==
    {r - 1 : r \in {q \in 1..Len(tlast.before) :
        tlast.before[q] \notin Range(nodes[tlast.node].children)}}

InsertedCount ==
    Cardinality(Range(nodes[tlast.node].children) \ Range(tlast.before))

C18_NotExpandableIsNoOp ==
    /\ \A n \in 1..Len(nodes) :
        nodes[n].expandable <=> data_collections_loader(nodes[n].data)
    /\ (tlast.op = "expand" /\ ~nodes[tlast.node].expandable) =>
        /\ ~tlast.called
        /\ tlast.raised = "none"
        /\ tlast.signals = <<>>
        /\ nodes[tlast.node].children = tlast.before

C18_Witness ==
    /\ tlast.op = "expand"
    /\ ~nodes[tlast.node].expandable
    /\ nodes[tlast.node].children # <<>>

\* C19: when the loader returns None the result is treated as an empty
\* list: every child of the node is removed, none is added and nothing is
\* raised.
C19_NoneIsEmptyList ==
    (tlast.op = "expand" /\ tlast.called /\ tlast.result = None) =>
        /\ tlast.raised = "none"
        /\ nodes[tlast.node].children = <<>>
        /\ Insertions = <<>>
        /\ Len(Removals) = Len(tlast.before)

C19_Witness ==
    /\ tlast.op = "expand"
    /\ tlast.called
    /\ tlast.result = None
    /\ Len(tlast.before) = 2

\* The values a candidate carries for a key: those of its tag (a single
\* value or each value of a list), none when it lacks the key.
CandidateValues(row_tags, key) ==
    IF row_tags = None THEN {}
    ELSE IF key \notin DOMAIN row_tags THEN {}
    ELSE Range(as_list(row_tags[key]))

\* C20 (as stated): a predicate (key, accepted values) is satisfied by a
\* candidate exactly when the accepted values and the candidate's values for
\* the key have a value in common, in both match modes.
C20_PredicateIsIntersection ==
    flast.op = "filter" =>
        \A key \in DOMAIN flast.matches :
            flast.matches[key] <=>
                (Range(active_filters.at[key])
                    \cap CandidateValues(flast.tags, key) # {})

\* C20 (amended): in mode 'any' a predicate is satisfied exactly when the
\* accepted values and the candidate's values for the key have a value in
\* common; in mode 'all' exactly when every accepted value is among the
\* candidate's values.
C20_PredicateByMode ==
    flast.op = "filter" =>
        \A key \in DOMAIN flast.matches :
            flast.matches[key] <=>
                IF filter_mode = "any"
                THEN Range(active_filters.at[key])
                        \cap CandidateValues(flast.tags, key) # {}
                ELSE Range(active_filters.at[key])
                        \subseteq CandidateValues(flast.tags, key)

C20_Witness ==
    /\ flast.op = "filter"
    /\ filter_mode = "all"
    /\ active_filters.keys = <<"color">>
    /\ active_filters.at["color"] = <<Str("red"), Str("blue")>>
    /\ CandidateValues(flast.tags, "color") = {Str("red")}
    /\ ~flast.matches["color"]
    /\ ~flast.accepted

\* The candidate of the last filterAcceptsRow call has the key in its tags.
HasKey(key) ==
    IF flast.tags = None THEN FALSE ELSE key \in DOMAIN flast.tags

\* C21: a presence-only predicate (the value True given by an empty value
\* field) is satisfied by every candidate whose tags contain the key,
\* whatever the tag's value, and by no candidate whose tags lack the key.
C21_PresenceOnly ==
    flast.op = "filter" =>
        \A key \in DOMAIN flast.matches :
            active_filters.at[key] = <<True>> =>
                (flast.matches[key] <=> HasKey(key))

\* C22: with a non-empty filter set, filterAcceptsRow returns the logical AND
\* of the per-predicate results in mode 'all' and their logical OR in mode
\* 'any'.
C22_CombinedByMode ==
    (flast.op = "filter" /\ active_filters.keys # <<>>) =>
        (flast.accepted <=>
            IF filter_mode = "all"
            THEN \A key \in DOMAIN flast.matches : flast.matches[key]
            ELSE \E key \in DOMAIN flast.matches : flast.matches[key])

C22_Witness ==
    /\ flast.op = "filter"
    /\ filter_mode = "any"
    /\ Len(active_filters.keys) = 2
    /\ flast.matches["color"]
    /\ ~flast.matches["kind"]
    /\ flast.accepted

\* C23: with an empty filter set, filterAcceptsRow accepts every row,
\* whatever its tags and whatever the match mode.
C23_NoFilterAcceptsAll ==
    (flast.op = "filter" /\ active_filters.keys = <<>>) => flast.accepted

C23_Witness ==
    /\ flast.op = "filter"
    /\ tags = <<>>
    /\ active_filters.keys = <<>>
    /\ filter_mode = "any"
    /\ flast.tags = None
    /\ flast.accepted

\* C24: a candidate that lacks a filtered key is evaluated with the one
\* value None for that key; so a candidate with no tags (None or empty) is
\* rejected in mode 'all' by every predicate that names accepted values, and
\* it is accepted only if every predicate is presence-only.
C24_MissingKeyIsNone ==
    flast.op = "filter" =>
        /\ \A key \in DOMAIN flast.matches :
            ~HasKey(key) =>
                (flast.matches[key] <=>
                    IF filter_mode = "all"
                    THEN Range(active_filters.at[key]) \subseteq {None}
                    ELSE None \in Range(active_filters.at[key]))
        /\ (filter_mode = "all" /\ flast.tags \in {None, <<>>}
                /\ active_filters.keys # <<>>) =>
            /\ \A key \in DOMAIN flast.matches :
                (\E v \in Range(active_filters.at[key]) : v # True)
                    => (~flast.matches[key] /\ ~flast.accepted)
            /\ flast.accepted =>
                \A key \in DOMAIN flast.matches :
                    Range(active_filters.at[key]) = {True}

C24_Witness ==
    /\ flast.op = "filter"
    /\ filter_mode = "all"
    /\ flast.tags = <<>>
    /\ active_filters.keys = <<"color", "kind">>
    /\ active_filters.at["color"] = <<Str("red")>>
    /\ active_filters.at["kind"] = <<True>>
    /\ ~flast.accepted

\* The sequences with the elements of seq in every order.
Reorderings(seq) ==
    {[k \in 1..Len(seq) |-> seq[f[k]]] :
        f \in {g \in [1..Len(seq) -> 1..Len(seq)] :
                \A i, j \in 1..Len(seq) : g[i] = g[j] => i = j}}

\* The dicts with the predicates of filters in every order and the accepted
\* values of each predicate in every order.
ReorderedFilters(filters) ==
    {Dict(keys, at) :
        keys \in Reorderings(filters.keys),
        at \in {a \in [DOMAIN filters.at ->
                        UNION {Reorderings(filters.at[key]) :
                                    key \in DOMAIN filters.at}] :
                \A key \in DOMAIN filters.at :
                    a[key] \in Reorderings(filters.at[key])}}

\* The tag maps with the values of each list-valued tag in every order.
ReorderedTags(row_tags) ==
    IF row_tags = None THEN {None}
    ELSE {t \in [DOMAIN row_tags ->
                    UNION {IF DOMAIN row_tags[key] = {"list"}
                           THEN {List(l) : l \in Reorderings(row_tags[key].list)}
                           ELSE {row_tags[key]} : key \in DOMAIN row_tags}] :
            \A key \in DOMAIN row_tags :
                IF DOMAIN row_tags[key] = {"list"}
                THEN t[key] \in
                        {List(l) : l \in Reorderings(row_tags[key].list)}
                ELSE t[key] = row_tags[key]}

\* The verdict of the last filterAcceptsRow call is the verdict for every
\* reordering of the predicates, of their values and of the tag's values.
OrderIndependent ==
    (flast.op = "filter" /\ active_filters.keys # <<>>) =>
        \A filters \in ReorderedFilters(active_filters),
           row_tags \in ReorderedTags(flast.tags) :
            evaluate(filters, filter_mode, row_tags).accepted = flast.accepted

\* C30: filter evaluation is pure and order-independent: a filterAcceptsRow
\* call changes neither active_filters nor filter_mode (nor the filter tags
\* and the checked mode button), the item's tags it was handed are only read,
\* and its verdict is the same for every ordering of the predicates in
\* active_filters and of the values inside a predicate or a tag.
C30_PureAndOrderIndependent ==
    [][flast'.op = "filter" =>
        /\ UNCHANGED <<active_filters, filter_mode, tags, mode_group>>
        /\ OrderIndependent']_vars

C30_Witness ==
    /\ flast.op = "filter"
    /\ filter_mode = "any"
    /\ active_filters.keys = <<"kind", "color">>
    /\ active_filters.at["color"] = <<Str("blue")>>
    /\ flast.tags # None
    /\ DOMAIN flast.tags = {"color"}
    /\ flast.tags["color"] = List(<<Str("red"), Str("blue")>>)
    /\ flast.matches["color"]
    /\ ~flast.matches["kind"]
    /\ flast.accepted

\* The last call decoded a regular image into loader.image with a target
\* size set.
RegularDecoded ==
    /\ dlast.op \in {"run", "slot"}
    /\ dlast.emitted
    /\ file_mime(loader.path) \notin hdr_mimes
    /\ ~isNull(loader.target_size)
    /\ loader.image # NullImage

\* C25: for a regular image with a target size set, the decoded image fits
\* within the target box and keeps the source aspect ratio (to the pixel),
\* and it is never larger than the source: a source smaller than the target
\* box is not upscaled.
C25_FitsKeepsAspectNeverUpscales ==
    RegularDecoded =>
        LET src == source_size(loader.path)
            img == loader.image
            d == img.width * src.height - img.height * src.width
        IN /\ img.width <= loader.target_size.width
           /\ img.height <= loader.target_size.height
           /\ d < src.width + src.height
           /\ -d < src.width + src.height
           /\ img.width <= src.width
           /\ img.height <= src.height

\* The number of channels of a QImage format.
FormatChannels(format) ==
    CASE format = "Format_RGB888" -> 3
      [] format = "Format_RGBA8888" -> 4
      [] OTHER -> 0

C28_WorkerUsesSnapshot ==
    [][\A k \in 1..Len(futures) :
        (/\ Len(futures') = Len(futures)
         /\ futures[k].state = "pending"
         /\ futures'[k].state = "result"
         /\ futures'[k].kind = "regular")
        => futures'[k].data =
                image_reader_read(loader.path, futures[k].at_submit)]_vars

\* C27: changing the items' target size (setSizeHint, as setIconSize does
\* for every item of the model) only changes the size used by later decodes:
\* every item's image is left as it was, no decode is started and nothing is
\* added to _pending_items; the items of the model have the new size as
\* their target size.
C27_SizeHintOnlySetsTargetSize ==
    [][last'.ev = "resize" =>
        /\ \A i \in Ids : items'[i].image = items[i].image
        /\ \A i \in Ids : items'[i].queue_loads = items[i].queue_loads
        /\ \A row \in 1..Len(model) : items'[model[row]].target_size = iconSize'
        /\ UNCHANGED <<model, _pending_items, _is_loading, timers, stack,
                       pool, jobs>>]_vars

C27_Witness ==
    /\ last.ev = "resize"
    /\ iconSize = QSize(143, 75)
    /\ Len(model) = 2
    /\ items[1].path = "a.png"
    /\ items[1].image = QImage("Format_ARGB32", QSize(285, 142))
    /\ items[1].target_size = QSize(143, 75)
    /\ _pending_items = <<2>>

\* C29: when the slot runs for an unchecked collection node, every
\* ThumbnailItem of that collection is removed from the model of every
\* ThumbnailsWidget of the context, and the items of the other collections
\* stay in each model in their previous relative order.
C29_UncheckRemovesCollection ==
    [][clast'.op = "uncheck" =>
        /\ Len(thumbnails_widgets') = Len(thumbnails_widgets)
        /\ \A w \in 1..Len(thumbnails_widgets) :
            thumbnails_widgets'[w].model =
                SelectSeq(thumbnails_widgets[w].model,
                          LAMBDA t : t.collection_item # clast'.item)]_vars

\* An uncheck of c1 has just emptied the second widget and left in the first
\* the three items of c2 in the order they were added; the item of c1 that
\* was added second is gone from between them.
C29_Witness ==
    /\ clast = [op |-> "uncheck", item |-> "c1"]
    /\ Len(thumbnails_widgets) = 2
    /\ thumbnails_widgets[2].model = <<>>
    /\ Len(thumbnails_widgets[1].model) = 3
    /\ \A k \in 1..3 :
            thumbnails_widgets[1].model[k].collection_item = "c2"
    /\ thumbnails_widgets[1].model[1].id = 1
    /\ thumbnails_widgets[1].model[2].id = 4
    /\ thumbnails_widgets[1].model[3].id = 5

\* C31: between event handlers, _is_loading is true exactly when one (and
\* only one) _load_next_item callback is scheduled, and _is_loading false
\* implies that _pending_items is empty.
C31_LoadQueueInvariant ==
    stack = <<>> =>
        /\ timers <= 1
        /\ _is_loading <=> timers = 1
        /\ ~_is_loading => _pending_items = <<>>

\* The load queue is drained: nothing pending, not loading, no run scheduled.
Drained == _pending_items = <<>> /\ ~_is_loading /\ timers = 0

\* C32: under fair firing of the zero-delay timer, after the last
\* add_collection_item call the load queue drains and stays drained, also
\* when adds and removals are interleaved with the timer callbacks.
C32_QueueDrains == <>[]Drained

\* The ThumbnailItems of the catalog made for file f of collection c.
ItemsOf(c, f) ==
    {t \in Thumbs(thumbnails_widgets) : t.collection_item = c /\ t.path = f}

\* C33: for any sequence of check/uncheck toggles of a collection node, once
\* every queued item_checked notification has been handled the catalog holds
\* each file the collection shows exactly once if the node is checked, and
\* no item of the collection if it is unchecked.
C33_TogglesSettle ==
    item_checked = <<>> =>
        \A c \in Collections :
            IF checked[c]
            THEN \A g \in DOMAIN files_by_group(c).at :
                    \A f \in Range(files_by_group(c).at[g]) :
                        Cardinality(ItemsOf(c, f)) = 1
            ELSE \A t \in Thumbs(thumbnails_widgets) : t.collection_item # c

\* C34: a call of _update_all_items submits exactly one refresh job for each
\* item that is in the source model, and every submitted job refers to an
\* item (of the model at the moment of submission), also when the
\* processEvents() between two submissions ran handlers that added or removed
\* rows.
C34_OneJobPerRow ==
    last.ev = "refreshed" =>
        /\ \A k \in 1..Len(last.submitted) : last.submitted[k] # 0
        /\ \A row \in 1..Len(model) :
            Cardinality({k \in 1..Len(last.submitted) :
                            last.submitted[k] = model[row]}) = 1

\* C35: after on_item_expanded the children of the node have pairwise
\* distinct names, also when the loader's result lists a name more than once.
C35_DistinctChildNames ==
    (tlast.op = "expand" /\ tlast.called /\ tlast.raised = "none") =>
        LET children == nodes[tlast.node].children
        IN \A i, j \in 1..Len(children) :
            nodes[children[i]].name = nodes[children[j]].name => i = j

\* CollectionsModel.parent(index) finds the row of the parent item: the
\* list it searches (model.items or the grandparent's children) holds it.
ParentRowFound(n) ==
    LET p == nodes[n].parent IN
    p # 0 =>
        IF nodes[p].parent = 0
        THEN p \in Range(roots)
        ELSE p \in Range(nodes[nodes[p].parent].children)

\* C36: after build_tree_items and any sequence of expansions, every node of
\* a children list has the owner of the list as its parent, no node is in
\* two children lists or twice in one, and every top-level node has parent
\* None; so CollectionsModel.parent() finds the parent item's row.
C36_BackReferences ==
    /\ \A n \in TreeNodes : \A r \in 1..Len(nodes[n].children) :
            nodes[nodes[n].children[r]].parent = n
    /\ \A n, m \in TreeNodes :
        \A r \in 1..Len(nodes[n].children), q \in 1..Len(nodes[m].children) :
            nodes[n].children[r] = nodes[m].children[q] => (n = m /\ r = q)
    /\ \A k \in 1..Len(roots) : nodes[roots[k]].parent = 0
    /\ \A n \in TreeNodes : ParentRowFound(n)

\* An expansion has removed a child and inserted a new node under a node
\* that is itself a child.
C36_Witness ==
    /\ tlast.op = "expand"
    /\ tlast.raised = "none"
    /\ nodes[tlast.node].parent # 0
    /\ \E c \in Range(tlast.before) : c \notin Range(nodes[tlast.node].children)
    /\ \E c \in Range(nodes[tlast.node].children) : c \notin Range(tlast.before)

\* C37: reconciliation of the tree never changes the catalog:
\* on_item_expanded leaves the items, every ThumbnailsWidget model and every
\* _pending_items queue unchanged, so the thumbnail items added for a checked
\* child that it removes stay in the catalog, still referring to that node.
C37_ExpansionLeavesCatalog ==
    [][(tlast'.op = "expand" /\ <<nodes, tlast>>' # <<nodes, tlast>>) =>
        UNCHANGED <<items, model, _pending_items, _is_loading, timers,
                    pool, thumbnails_widgets>>]_vars

\* An expansion has removed a checked child whose item is still in the model
\* and in _pending_items.
C37_Witness ==
    /\ tlast.op = "expand"
    /\ \E c \in Range(tlast.before) :
        /\ c \notin TreeNodes
        /\ nodes[c].checked = "Checked"
        /\ \E row \in 1..Len(model) : items[model[row]].collection_item = c
        /\ \E k \in 1..Len(_pending_items) :
                items[_pending_items[k]].collection_item = c

\* The values of the bar's tags named `name`, in the order of the tags.
ValuesOf(name) ==
    LET same == SelectSeq(tags, LAMBDA t : t.name = name)
    IN [k \in 1..Len(same) |-> same[k].value]

\* C38: after any sequence of add_filter, remove_filter, filter edits and
\* match-mode changes, active_filters is the grouping of the bar's current
\* tags by name (each name with the list of its tags' values in insertion
\* order), filter_mode is the selected mode button, and a name with no
\* remaining tag is not a key of active_filters.
C38_FiltersFollowTheBar ==
    /\ filter_mode = mode_group
    /\ Range(active_filters.keys) = {tags[k].name : k \in 1..Len(tags)}
    /\ DOMAIN active_filters.at = Range(active_filters.keys)
    /\ \A i, j \in 1..Len(active_filters.keys) :
            active_filters.keys[i] = active_filters.keys[j] => i = j
    /\ \A name \in DOMAIN active_filters.at :
            active_filters.at[name] = ValuesOf(name)

\* Two tags of one name, in mode 'any': one key with both values in order.
C38_Witness ==
    /\ Len(tags) = 2
    /\ tags[1] = [name |-> "color", value |-> Str("blue")]
    /\ tags[2] = [name |-> "color", value |-> True]
    /\ mode_group = "any"
    /\ active_filters.keys = <<"color">>
    /\ active_filters.at["color"] = <<Str("blue"), True>>

\* C39: load_files never returns None and calls files_loader only when a
\* loader exists and (files is None or force is true): with a list in the
\* cache (even an empty one) a call without force returns the cached list
\* and does not call the loader, and a call with force calls the loader
\* exactly once and replaces the cache by what it returned.
C39_LoadFilesCache ==
    llast.op = "load_files" =>
        /\ llast.returned # None
        /\ llast.called \in {0, 1}
        /\ llast.called = 1 <=>
            (data_item.files_loader /\ (llast.before = None \/ llast.force))
        /\ (llast.before # None /\ ~llast.force) =>
            /\ llast.called = 0
            /\ llast.returned = llast.before
            /\ data_item.files = llast.before
        /\ (llast.force /\ data_item.files_loader) =>
            /\ llast.called = 1
            /\ data_item.files = llast.result

\* A call without force on a collection with a loader and the empty list in
\* the cache: no call, the empty list returned.
C39_Witness ==
    /\ llast.op = "load_files"
    /\ ~llast.force
    /\ data_item.files_loader
    /\ llast.before = List(<<>>)
    /\ llast.called = 0
    /\ llast.returned = List(<<>>)
    /\ llast.result = List(<<"a.png">>)

====
